---- MODULE Spec2Model ----
(***************************************************************************)
(* A model of lgsoundbar's communication layer                             *)
(* (src/src/lgsoundbar/communication.py): the SoundbarCommunicator's       *)
(* socket, its _connect / close / send_message / receive_message           *)
(* operations stepped one socket call at a time, the framing and the       *)
(* cipher codec on byte sequences.                                         *)
(*                                                                         *)
(* Bytes are integers 0..255 and byte strings are sequences of them.       *)
(* The environment (the network and the peer device) is nondeterministic:  *)
(* every connect, sendall and recv draws its outcome from the outcomes the *)
(* socket API can produce in the socket's state.                           *)
(***************************************************************************)
EXTENDS Integers, Sequences, FiniteSets, TLC

\* ------------------------------------------------------------ bounds

\* The number of public calls (send_message, receive_message, close) made on
\* a communicator after its construction.
MaxCalls == 3

\* The number of messages the caller thread of a client sends.
MaxSends == 1

\* The number of iterations the listener thread of a client starts.
MaxIterations == 1

\* The length, in characters, of the longest text given to _encrypt on its
\* own.
MaxPlainLen == 240

\* ------------------------------------------------- program constants

BlockSize == 16
Marker == 16
HeaderLen == 4
MaxLengthByte == 255

DEFAULT_IV == <<39, 37, 94, 85, 114, 55, 103, 121, 36, 126, 116, 43, 102, 41, 37, 64>>

\* ------------------------------------------------------ byte helpers

Min(a, b) == IF a < b THEN a ELSE b

Repeat(b, n) == [i \in 1..n |-> b]

Drop(s, n) == SubSeq(s, n + 1, Len(s))

Take(s, n) == SubSeq(s, 1, n)

\* ------------------------------------------------------- cipher codec
\* AES.new(key, MODE_CBC, iv) is a library call.  It is modelled by what the
\* code relies on: a keyed, length-preserving bijection on block-aligned
\* byte strings, chained block to block from the IV.  The block transform is
\* a byte substitution composed with a rotation of the block; the chaining
\* operation is addition modulo 256 in place of XOR.

SubByte(b) == (7 * b + 3) % 256

InvSubByte(c) == (183 * (c + 253)) % 256

EncryptBlock(blk) == [i \in 1..BlockSize |-> SubByte(blk[(i % BlockSize) + 1])]

DecryptBlock(blk) ==
    [j \in 1..BlockSize |-> InvSubByte(blk[((j + BlockSize - 2) % BlockSize) + 1])]

Chain(blk, prev) == [i \in 1..BlockSize |-> (blk[i] + prev[i]) % 256]

Unchain(blk, prev) == [i \in 1..BlockSize |-> (blk[i] + 256 - prev[i]) % 256]

RECURSIVE CbcEncrypt(_, _)
CbcEncrypt(data, prev) ==
    IF data = <<>>
    THEN <<>>
    ELSE LET c == EncryptBlock(Chain(Take(data, BlockSize), prev))
         IN  c \o CbcEncrypt(Drop(data, BlockSize), c)

RECURSIVE CbcDecrypt(_, _)
CbcDecrypt(data, prev) ==
    IF data = <<>>
    THEN <<>>
    ELSE LET c == Take(data, BlockSize)
         IN  Unchain(DecryptBlock(c), prev) \o CbcDecrypt(Drop(data, BlockSize), c)

\* cipher.encrypt / cipher.decrypt with the communicator's key and IV.
AesEncrypt(data) == CbcEncrypt(data, DEFAULT_IV)

AesDecrypt(data) == CbcDecrypt(data, DEFAULT_IV)

\* A text (a Python str) is the sequence of its code points; bytes are a
\* sequence of numbers below 256.

\* str.encode("utf-8") of one code point (surrogates, which it rejects, are
\* in no text of the model).
EncodeChar(c) ==
    IF c < 128 THEN <<c>>
    ELSE IF c < 2048 THEN <<192 + (c \div 64), 128 + (c % 64)>>
    ELSE IF c < 65536
    THEN <<224 + (c \div 4096), 128 + ((c \div 64) % 64), 128 + (c % 64)>>
    ELSE <<240 + (c \div 262144), 128 + ((c \div 4096) % 64),
           128 + ((c \div 64) % 64), 128 + (c % 64)>>

\* The text is encoded half by half, which keeps the evaluation shallow.
RECURSIVE Utf8Encode(_)
Utf8Encode(text) ==
    IF text = <<>> THEN <<>>
    ELSE IF Len(text) = 1 THEN EncodeChar(text[1])
    ELSE LET h == Len(text) \div 2
         IN  Utf8Encode(Take(text, h)) \o Utf8Encode(Drop(text, h))

\* Mutant of PadLen: no padding for a text of a multiple of 16 characters.
PadLenZeroWhenAligned(data) == (BlockSize - (Len(data) % BlockSize)) % BlockSize

\* The padding loop of _encrypt: pad_len = 16 - (len(data) % 16), where
\* len(data) counts the characters of the str; pad_len characters
\* chr(pad_len) are appended.
PadLen(data) == BlockSize - (Len(data) % BlockSize)

Pad(data) == data \o Repeat(PadLen(data), PadLen(data))

\* Mutant of Prelude: the length in the first byte of the length field.
PreludeLengthFirst(length) == <<Marker, length, 0, 0, 0>>

\* bytearray([0x10, 0, 0, 0, length]) raises ValueError unless
\* 0 <= length <= 255.
Prelude(length) == <<Marker, 0, 0, 0, length>>

\* Mutant of _encrypt: the length byte is the length modulo 256.
_encryptTruncatesLength(data) ==
    LET data_bytes == Utf8Encode(Pad(data))
    IN  IF Len(data_bytes) % BlockSize # 0
        THEN [error |-> "ValueError", packet |-> <<>>]
        ELSE LET encrypted_data == AesEncrypt(data_bytes)
             IN  [ error |-> "",
                   packet |-> Prelude(Len(encrypted_data) % (MaxLengthByte + 1))
                                  \o encrypted_data ]

\* data_bytes = padded_data.encode("utf-8"); cipher.encrypt(data_bytes)
\* raises ValueError for data that is not block-aligned, and so does the
\* bytearray of the prelude for a length above 255.
_encrypt(data) ==
    LET data_bytes == Utf8Encode(Pad(data))
    IN  IF Len(data_bytes) % BlockSize # 0
        THEN [error |-> "ValueError", packet |-> <<>>]
        ELSE LET encrypted_data == AesEncrypt(data_bytes)
                 length == Len(encrypted_data)
             IN  IF length > MaxLengthByte
                 THEN [error |-> "ValueError", packet |-> <<>>]
                 ELSE [error |-> "", packet |-> Prelude(length) \o encrypted_data]

\* A continuation byte of UTF-8.
Continues(x) == x \in 128..191

\* The number of bytes of the character a lead byte starts; 0 for a byte
\* that starts none.
CharLen(h) ==
    IF h < 128 THEN 1
    ELSE IF h \in 194..223 THEN 2
    ELSE IF h \in 224..239 THEN 3
    ELSE IF h \in 240..244 THEN 4
    ELSE 0

\* str(decrypted_data, "utf-8"), strict: the bytes are valid when they do
\* not begin with a continuation byte and every other byte is a lead byte
\* followed by exactly its continuation bytes (the second-byte range
\* refinements for E0, ED, F0 and F4 are not modelled; no text of the model
\* depends on them).
Utf8Valid(b) ==
    /\ (b # <<>> => ~Continues(b[1]))
    /\ \A i \in 1..Len(b) :
          \/ Continues(b[i])
          \/ LET n == CharLen(b[i])
             IN  /\ n > 0
                 /\ i + n - 1 <= Len(b)
                 /\ \A j \in (i + 1)..(i + n - 1) : Continues(b[j])
                 /\ (i + n <= Len(b) => ~Continues(b[i + n]))

\* The code point of the bytes of one character.
DecodeChar(b) ==
    LET h == b[1]
    IN  IF h < 128 THEN h
        ELSE IF h < 224 THEN (h - 192) * 64 + (b[2] - 128)
        ELSE IF h < 240 THEN ((h - 224) * 64 + (b[2] - 128)) * 64 + (b[3] - 128)
        ELSE (((h - 240) * 64 + (b[2] - 128)) * 64 + (b[3] - 128)) * 64 + (b[4] - 128)

\* The code points of valid UTF-8 bytes, decoded part by part: the bytes are
\* cut at the first lead byte after the middle.
RECURSIVE Utf8Decode(_)
Utf8Decode(b) ==
    IF b = <<>> THEN <<>>
    ELSE LET cuts == {i \in ((Len(b) \div 2) + 1)..Len(b) : i > 1 /\ ~Continues(b[i])}
         IN  IF cuts = {}
             THEN IF CharLen(b[1]) = Len(b)
                  THEN <<DecodeChar(b)>>
                  ELSE <<DecodeChar(Take(b, CharLen(b[1])))>>
                           \o Utf8Decode(Drop(b, CharLen(b[1])))
             ELSE LET m == CHOOSE i \in cuts : \A j \in cuts : i <= j
                  IN  Utf8Decode(Take(b, m - 1)) \o Utf8Decode(Drop(b, m - 1))

\* decrypted_data[: -ord(padding)]: Python's slice up to a negative index.
\* -0 is 0, so a last byte of 0 gives the empty string; a last byte of at
\* least the length gives the empty string too.
StripPadding(decrypted_data) ==
    LET p == decrypted_data[Len(decrypted_data)]
    IN  IF p = 0 \/ p >= Len(decrypted_data)
        THEN <<>>
        ELSE Take(decrypted_data, Len(decrypted_data) - p)

\* Mutant of InvalidLength: a single block is rejected too.
InvalidLengthOneBlock(data) == Len(data) <= BlockSize \/ Len(data) % BlockSize # 0

InvalidLength(data) == data = <<>> \/ Len(data) % BlockSize # 0

_decrypt(data) ==
    IF InvalidLength(data)
    THEN [error |-> "Invalid encrypted data length", text |-> <<>>]
    ELSE LET stripped == StripPadding(AesDecrypt(data))
         IN  IF Utf8Valid(stripped)
             THEN [error |-> "", text |-> Utf8Decode(stripped)]
             ELSE [error |-> "UnicodeDecodeError", text |-> <<>>]

\* ------------------------------------------------------------- JSON
\* json.dumps and json.loads are library calls.  They are modelled on the
\* documents of the model: a message is named by a token, json.dumps gives
\* its text, and json.loads gives the token back for a text that is one of
\* these documents and JSONDecodeError for the other texts of the model (the
\* empty text, "{" and texts that are not UTF-8 never are JSON).

TextEmptyObject == <<123, 125>>

TextV1 == <<123, 34, 118, 34, 58, 32, 49, 125>>

TextGetProductInfo ==
    <<123, 34, 99, 109, 100, 34, 58, 32, 34, 103, 101, 116, 34, 44, 32, 34,
      109, 115, 103, 34, 58, 32, 34, 80, 82, 79, 68, 85, 67, 84, 95, 73, 78,
      70, 79, 34, 125>>

TextOpenBrace == <<123>>

TextNotUtf8 == <<255>>

\* json.dumps(SoundbarMessage(SET, SETTING_VIEW_INFO, {"s_user_name": name})
\* .to_dict()): the message of set_name, for a name of letters.
TextSetName(name) ==
    <<123, 34, 99, 109, 100, 34, 58, 32, 34, 115, 101, 116, 34, 44, 32, 34,
      109, 115, 103, 34, 58, 32, 34, 83, 69, 84, 84, 73, 78, 71, 95, 86, 73,
      69, 87, 95, 73, 78, 70, 79, 34, 44, 32, 34, 100, 97, 116, 97, 34, 58,
      32, 123, 34, 115, 95, 117, 115, 101, 114, 95, 110, 97, 109, 101, 34,
      58, 32, 34>> \o name \o <<34, 125, 125>>

\* The message "SetName" is set_name with a name of MaxPlainLen letters: its
\* text is longer than a one-byte length can tell.
Messages == {"EmptyObject", "V1", "GetProductInfo", "SetName"}

json_dumps(message) ==
    CASE message = "EmptyObject" -> TextEmptyObject
      [] message = "V1" -> TextV1
      [] message = "GetProductInfo" -> TextGetProductInfo
      [] message = "SetName" -> TextSetName(Repeat(97, MaxPlainLen))

\* Mutant of json_loads: every document is taken for the first one.
json_loadsFirstDocument(text) ==
    IF \E m \in Messages : json_dumps(m) = text
    THEN [error |-> "", value |-> "V1"]
    ELSE [error |-> "JSONDecodeError", value |-> "None"]

json_loads(text) ==
    IF \E m \in Messages : json_dumps(m) = text
    THEN [error |-> "", value |-> CHOOSE m \in Messages : json_dumps(m) = text]
    ELSE [error |-> "JSONDecodeError", value |-> "None"]

\* struct.unpack(">I", length_bytes)[0].  TLC's integers are 32-bit signed:
\* a length of 2^31 or more is represented by 2^31 - 1.  The code only
\* compares length with, and subtracts from it, the number of bytes read so
\* far, and no stream of the model holds that many bytes, so every such
\* length behaves alike.
UnpackLength(length_bytes) ==
    IF length_bytes[1] >= 128
    THEN 2147483647
    ELSE ((length_bytes[1] * 256 + length_bytes[2]) * 256 + length_bytes[3]) * 256
             + length_bytes[4]

\* ------------------------------------------------------- the peer
\* What the device sends on one connection: the bytes of its stream and
\* whether it shuts the stream down after them (eof) or stays silent.

\* The inbound length field: 4 bytes, big-endian (the inverse of
\* UnpackLength).
PackLength(n) ==
    <<(n \div 16777216) % 256, (n \div 65536) % 256, (n \div 256) % 256, n % 256>>

PeerFrame(text) ==
    LET ciphertext == AesEncrypt(Pad(text))
    IN  <<Marker>> \o PackLength(Len(ciphertext)) \o ciphertext

Streams ==
    << [bytes |-> <<>>, eof |-> TRUE],
       [bytes |-> <<>>, eof |-> FALSE],
       [bytes |-> PeerFrame(TextV1), eof |-> FALSE],
       [bytes |-> PeerFrame(TextEmptyObject), eof |-> TRUE],
       [bytes |-> <<17>> \o PeerFrame(TextV1), eof |-> FALSE],
       [bytes |-> <<Marker, 0, 0>>, eof |-> TRUE],
       [bytes |-> <<Marker>> \o PackLength(16) \o Repeat(48, 8), eof |-> TRUE],
       [bytes |-> <<Marker>> \o PackLength(8) \o Repeat(48, 8), eof |-> FALSE],
       [bytes |-> <<Marker>> \o PackLength(0), eof |-> FALSE],
       [bytes |-> <<Marker, 127, 255, 255, 255>> \o Repeat(48, 4), eof |-> TRUE],
       [bytes |-> PeerFrame(TextOpenBrace), eof |-> FALSE],
       [bytes |-> PeerFrame(TextNotUtf8), eof |-> FALSE],
       [bytes |-> PeerFrame(TextV1) \o PeerFrame(TextEmptyObject), eof |-> FALSE] >>

\* The length field of the frame that starts after the first p bytes.
FrameLength(bytes, p) == UnpackLength(SubSeq(bytes, p + 2, p + HeaderLen + 1))

\* The position after the frame that starts after the first p bytes.
FrameEnd(bytes, p) == p + 1 + HeaderLen + FrameLength(bytes, p)

\* From position p on, the bytes are whole frames: each a marker, a length
\* that is a positive multiple of 16, and that many payload bytes.
RECURSIVE WellFramed(_, _)
WellFramed(bytes, p) ==
    \/ p = Len(bytes)
    \/ /\ p + 1 + HeaderLen <= Len(bytes)
       /\ bytes[p + 1] = Marker
       /\ bytes[p + 2] < 128
       /\ FrameLength(bytes, p) > 0
       /\ FrameLength(bytes, p) % BlockSize = 0
       /\ FrameEnd(bytes, p) <= Len(bytes)
       /\ WellFramed(bytes, FrameEnd(bytes, p))

\* The positions where the frames of well-framed bytes start, from p on, and
\* the position after the last one.
RECURSIVE FrameStarts(_, _)
FrameStarts(bytes, p) ==
    IF p >= Len(bytes) THEN {p} ELSE {p} \cup FrameStarts(bytes, FrameEnd(bytes, p))

\* ------------------------------------------------------------ state

Threads == {"caller", "listener"}

VARIABLES
    socket,     \* self.socket: 0 for None, else the index of a socket in socks
    socks,      \* every socket object created so far
    th,         \* each thread's position, locals, and the outcome of its call
    calls,      \* public calls made after construction
    nConnect,   \* socket.connect calls made so far
    nClose,     \* socket.close calls made so far
    nSendall,   \* socket.sendall calls made so far
    client,     \* the LGSoundbarClient around the communicator
    probe,      \* the argument and results of a cipher call on its own
    peer        \* the streams the device may send on a connection

vars == <<socket, socks, th, calls, nConnect, nClose, nSendall, client, probe, peer>>

NoResult == [kind |-> "none", value |-> "None"]

InitThread(pc0) ==
    [ pc |-> pc0,
      stack |-> <<>>,
      op |-> "none",
      message |-> "None",
      packet |-> <<>>,
      first_byte |-> <<>>,
      length_bytes |-> <<>>,
      length |-> 0,
      encrypted_data |-> <<>>,
      raising |-> "",
      result |-> NoResult,
      log |-> <<>>,
      sock0 |-> 0 ]

\* LGSoundbarClient before __init__ has run: self._listening = False; no
\* close() yet, no listener iteration, nothing handed to the callback.
InitClient ==
    [ _listening |-> FALSE,
      closed |-> FALSE,
      iterations |-> 0,
      invoked |-> <<>> ]

\* No cipher call on its own is under way.
NoProbe == [stage |-> "none", data |-> <<>>, packet |-> <<>>, error |-> "", text |-> <<>>]

\* The state every specification starts from, but for the caller's position.
InitFrom(pc0) ==
    /\ socket = 0
    /\ socks = <<>>
    /\ th = [t \in Threads |-> InitThread(IF t = "caller" THEN pc0 ELSE "off")]
    /\ calls = 0
    /\ nConnect = 0
    /\ nClose = 0
    /\ nSendall = 0
    /\ client = InitClient

\* The device may send any stream of the catalog.
Init == InitFrom("new") /\ probe = NoProbe /\ peer = 1..Len(Streams)

\* ------------------------------------------- the cipher on its own
\* _encrypt and _decrypt are called on texts drawn from Plaintexts: runs of
\* one character (a control character, a letter, a two-byte letter) of every
\* length up to MaxPlainLen, and the documents of the model.

PlainChars == {1, 97, 233}

\* The length of the longest run of one byte given to _decrypt on its own.
MaxCipherLen == 33

\* The last bytes of the decrypted data _decrypt is tried on: zero, values
\* below the length, the length, and values above it.
PaddingBytes == {0, 1, 15, 16, 17, 32, 33, 200}

\* The byte strings given to _decrypt on its own: runs of one byte of every
\* length up to MaxCipherLen, and the ciphertexts of one and two blocks of
\* letters whose last byte is one of PaddingBytes.
EncryptedInputs ==
    {Repeat(b, n) : b \in {0, 49}, n \in 0..MaxCipherLen}
        \cup {AesEncrypt(Repeat(97, n - 1) \o <<p>>) :
                  n \in {BlockSize, 2 * BlockSize}, p \in PaddingBytes}

Plaintexts ==
    {Repeat(c, n) : c \in PlainChars, n \in 0..MaxPlainLen}
        \cup {json_dumps(m) : m \in Messages}

CipherInit ==
    /\ InitFrom("off")
    /\ peer = {}
    /\ \/ \E data \in Plaintexts :
             probe = [NoProbe EXCEPT !.stage = "plain", !.data = data]
       \/ \E data \in EncryptedInputs :
             probe = [NoProbe EXCEPT !.stage = "cipher", !.packet = data]

\* packet = self._encrypt(data)
ProbeEncrypt ==
    /\ probe.stage = "plain"
    /\ LET e == _encrypt(probe.data)
       IN  probe' = [probe EXCEPT !.stage = "encrypted", !.packet = e.packet, !.error = e.error]
    /\ UNCHANGED <<peer, socket, socks, th, calls, nConnect, nClose, nSendall, client>>

\* text = self._decrypt(packet[5:])
ProbeDecrypt ==
    /\ probe.stage = "encrypted"
    /\ probe.error = ""
    /\ LET d == _decrypt(Drop(probe.packet, HeaderLen + 1))
       IN  probe' = [probe EXCEPT !.stage = "decrypted", !.text = d.text, !.error = d.error]
    /\ UNCHANGED <<peer, socket, socks, th, calls, nConnect, nClose, nSendall, client>>

\* text = self._decrypt(data), on bytes that need not come from _encrypt
ProbeDecryptOnly ==
    /\ probe.stage = "cipher"
    /\ LET d == _decrypt(probe.packet)
       IN  probe' = [probe EXCEPT !.stage = "opened", !.text = d.text, !.error = d.error]
    /\ UNCHANGED <<peer, socket, socks, th, calls, nConnect, nClose, nSendall, client>>

CipherNext == ProbeEncrypt \/ ProbeDecrypt \/ ProbeDecryptOnly

CipherSpec == CipherInit /\ [][CipherNext]_vars

\* ------------------------------------------------------- bookkeeping

\* One socket-API call of the current public call, as a mock would record
\* it: the call, the socket it was made on and that socket's state, the
\* packet of a sendall, and the outcome.
Event(ev, s, pkt, res) ==
    [ ev |-> ev,
      sock |-> s,
      on |-> IF s = 0 THEN "None" ELSE socks[s].st,
      pkt |-> pkt,
      res |-> res ]

\* The record of the call's socket calls; a run of successful recv calls on
\* one socket is recorded once.  The record is kept while one thread uses
\* the communicator; once a listener thread runs, no record is kept.
Logged(me, e) ==
    IF th["listener"].pc # "off" THEN me
    ELSE IF e.ev = "recv" /\ e.res = "ok" /\ me.log # <<>> /\ me.log[Len(me.log)] = e
    THEN me
    ELSE [me EXCEPT !.log = Append(@, e)]

\* The call ends: it returns value (kind "return") or raises the error named
\* value (kind "raise").  A constructor that raises leaves no communicator.
Finish(me, kind, value) ==
    [me EXCEPT !.pc = IF me.op = "__init__" /\ kind = "raise" THEN "failed" ELSE "idle",
               !.stack = <<>>,
               !.result = [kind |-> kind, value |-> value]]

Return(me, value) == Finish(me, "return", value)

Raise(me, error) == Finish(me, "raise", error)

\* Continue at the label on top of the stack of pending continuations.
Resume(me) == [me EXCEPT !.pc = Head(me.stack), !.stack = Tail(me.stack)]

\* A public call starts: fresh locals, an empty record of socket calls.
Enter(me, op, message) ==
    [InitThread("idle") EXCEPT !.op = op, !.message = message, !.sock0 = socket]

\* ------------------------------------------------- the socket API
\* The outcomes a socket call can have on self.socket as it is when the call
\* is made.  A socket is "new" (created, never connected), "connected",
\* "reset" (an I/O call on it failed with a connection error) or "closed".

Avail(s) == Len(Streams[socks[s].stream].bytes) - socks[s].rpos

\* socket.connect: succeeds or fails on a new socket; fails on any other.
ConnectOutcomes(s) ==
    IF s = 0 THEN {"AttributeError"}
    ELSE IF socks[s].st = "new" THEN {"ok", "error"}
    ELSE {"error"}

\* socket.sendall: a timeout leaves the connection up, an error does not.
SendallOutcomes(s) ==
    IF s = 0 THEN {"AttributeError"}
    ELSE IF socks[s].st = "connected" THEN {"ok", "error", "timeout"}
    ELSE {"error"}

\* The sizes of a read of at most n bytes when avail bytes are to come: a
\* stream socket hands over any number of them, at least one.
ChunkSizes(n, avail) == 1..Min(n, avail)

\* socket.recv(n): some of the bytes not yet read (at most n), no byte at
\* the end of a stream the peer has shut down, a timeout, or an error.
RecvOutcomes(s, n) ==
    IF s = 0 THEN {[res |-> "AttributeError", k |-> 0]}
    ELSE IF socks[s].st = "connected"
    THEN {[res |-> "ok", k |-> k] : k \in ChunkSizes(n, Avail(s))}
         \cup (IF Avail(s) = 0 /\ Streams[socks[s].stream].eof
               THEN {[res |-> "eof", k |-> 0]} ELSE {})
         \cup {[res |-> "timeout", k |-> 0], [res |-> "error", k |-> 0]}
    ELSE {[res |-> "error", k |-> 0]}

\* The bytes a recv that returns k bytes hands over.
RecvBytes(s, k) ==
    SubSeq(Streams[socks[s].stream].bytes, socks[s].rpos + 1, socks[s].rpos + k)

\* The sockets after an I/O call on s with the given outcome.
AfterIo(s, res, k) ==
    IF s = 0 THEN socks
    ELSE IF res = "ok" THEN [socks EXCEPT ![s].rpos = @ + k]
    ELSE IF res = "error" /\ socks[s].st = "connected"
    THEN [socks EXCEPT ![s].st = "reset"]
    ELSE socks

\* ----------------------------------------------------------- _connect

\* The error _connect raises for a socket.error.
ConnectError == "Failed to connect"

\* self.socket = socket.socket(AF_INET, SOCK_STREAM): the new object is
\* assigned before it is connected.  (Creating the object is taken to
\* succeed: running out of descriptors is not modelled.)
ConnectCreate(t) ==
    /\ th[t].pc = "connect_create"
    /\ socks' = Append(socks, [st |-> "new", stream |-> 0, rpos |-> 0])
    /\ socket' = Len(socks) + 1
    /\ th' = [th EXCEPT ![t].pc = "connect_connect"]
    /\ UNCHANGED <<peer, client, probe, calls, nConnect, nClose, nSendall>>

\* Mutant of ConnectConnect: a failed connect is tried again on a new socket.
ConnectConnectRetries(t) ==
    /\ th[t].pc = "connect_connect"
    /\ \E res \in ConnectOutcomes(socket) :
          LET me == Logged(th[t], Event("connect", socket, <<>>, res))
          IN  CASE res = "ok" ->
                     \E i \in peer :
                        /\ socks' = [socks EXCEPT ![socket] =
                                        [st |-> "connected", stream |-> i, rpos |-> 0]]
                        /\ th' = [th EXCEPT ![t] = Resume(me)]
                [] res = "error" ->
                     /\ socks' = socks
                     /\ th' = [th EXCEPT ![t] =
                                  IF nConnect < 1
                                  THEN [me EXCEPT !.pc = "connect_create"]
                                  ELSE Raise(me, ConnectError)]
                [] res = "AttributeError" ->
                     /\ socks' = socks
                     /\ th' = [th EXCEPT ![t] = Raise(me, "AttributeError")]
    /\ nConnect' = nConnect + 1
    /\ UNCHANGED <<peer, client, probe, socket, calls, nClose, nSendall>>

\* self.socket.connect((host, port)); a socket.error becomes the connect
\* error and self.socket keeps the socket that failed to connect.
ConnectConnect(t) ==
    /\ th[t].pc = "connect_connect"
    /\ \E res \in ConnectOutcomes(socket) :
          LET me == Logged(th[t], Event("connect", socket, <<>>, res))
          IN  CASE res = "ok" ->
                     \E i \in peer :
                        /\ socks' = [socks EXCEPT ![socket] =
                                        [st |-> "connected", stream |-> i, rpos |-> 0]]
                        /\ th' = [th EXCEPT ![t] = Resume(me)]
                [] res = "error" ->
                     /\ socks' = socks
                     /\ th' = [th EXCEPT ![t] = Raise(me, ConnectError)]
                [] res = "AttributeError" ->
                     /\ socks' = socks
                     /\ th' = [th EXCEPT ![t] = Raise(me, "AttributeError")]
    /\ nConnect' = nConnect + 1
    /\ UNCHANGED <<peer, client, probe, socket, calls, nClose, nSendall>>

\* -------------------------------------------------------------- close

\* if self.socket:
CloseCheck(t) ==
    /\ th[t].pc = "close_check"
    /\ th' = [th EXCEPT ![t] =
                 IF socket # 0 THEN [@ EXCEPT !.pc = "close_shutdown"] ELSE Resume(@)]
    /\ UNCHANGED <<peer, client, probe, socket, socks, calls, nConnect, nClose, nSendall>>

\* Mutant of CloseShutdown: the socket.error of shutdown is not ignored.
CloseShutdownPropagates(t) ==
    /\ th[t].pc = "close_shutdown"
    /\ \E res \in (IF socket = 0 THEN {"AttributeError"}
                   ELSE IF socks[socket].st = "connected" THEN {"ok", "error"}
                   ELSE {"error"}) :
          LET me == Logged(th[t], Event("shutdown", socket, <<>>, res))
          IN  th' = [th EXCEPT ![t] =
                        IF res = "ok"
                        THEN [me EXCEPT !.pc = "close_close"]
                        ELSE Raise(me, res)]
    /\ UNCHANGED <<peer, client, probe, socket, socks, calls, nConnect, nClose, nSendall>>

\* self.socket.shutdown(SHUT_RDWR), a socket.error ignored.
CloseShutdown(t) ==
    /\ th[t].pc = "close_shutdown"
    /\ \E res \in (IF socket = 0 THEN {"AttributeError"}
                   ELSE IF socks[socket].st = "connected" THEN {"ok", "error"}
                   ELSE {"error"}) :
          LET me == Logged(th[t], Event("shutdown", socket, <<>>, res))
          IN  th' = [th EXCEPT ![t] =
                        IF res = "AttributeError"
                        THEN Raise(me, "AttributeError")
                        ELSE [me EXCEPT !.pc = "close_close"]]
    /\ UNCHANGED <<peer, client, probe, socket, socks, calls, nConnect, nClose, nSendall>>

\* self.socket.close()
CloseClose(t) ==
    /\ th[t].pc = "close_close"
    /\ LET me == Logged(th[t], Event("close", socket, <<>>, "ok"))
       IN  IF socket = 0
           THEN /\ th' = [th EXCEPT ![t] = Raise(me, "AttributeError")]
                /\ UNCHANGED <<socks, nClose>>
           ELSE /\ th' = [th EXCEPT ![t] = [me EXCEPT !.pc = "close_clear"]]
                /\ socks' = [socks EXCEPT ![socket] =
                                [st |-> "closed", stream |-> 0, rpos |-> 0]]
                /\ nClose' = nClose + 1
    /\ UNCHANGED <<peer, client, probe, socket, calls, nConnect, nSendall>>

\* self.socket = None
CloseClear(t) ==
    /\ th[t].pc = "close_clear"
    /\ socket' = 0
    /\ th' = [th EXCEPT ![t] = Resume(@)]
    /\ UNCHANGED <<peer, client, probe, socks, calls, nConnect, nClose, nSendall>>

\* ----------------------------------------------------------- __init__

\* SoundbarCommunicator(host): self.socket = None, then self._connect().
Construct(t) ==
    /\ th[t].pc = "new"
    /\ socket' = 0
    /\ th' = [th EXCEPT ![t] =
                 [Enter(@, "__init__", "None") EXCEPT
                     !.pc = "connect_create", !.stack = <<"return_none">>]]
    /\ UNCHANGED <<peer, client, probe, socks, calls, nConnect, nClose, nSendall>>

\* The call returns None.
ReturnNone(t) ==
    /\ th[t].pc = "return_none"
    /\ th' = [th EXCEPT ![t] = Return(@, "None")]
    /\ UNCHANGED <<peer, client, probe, socket, socks, calls, nConnect, nClose, nSendall>>

\* communicator.close()
Close(t) ==
    /\ th[t].pc = "idle"
    /\ calls < MaxCalls
    /\ calls' = calls + 1
    /\ th' = [th EXCEPT ![t] =
                 [Enter(@, "close", "None") EXCEPT
                     !.pc = "close_check", !.stack = <<"return_none">>]]
    /\ UNCHANGED <<peer, client, probe, socket, socks, nConnect, nClose, nSendall>>

\* ------------------------------------------------------- send_message

SendError == "Failed to send message"

\* if not self.socket: self._connect()
EnterIo(me, first) ==
    IF socket = 0
    THEN [me EXCEPT !.pc = "connect_create", !.stack = <<first>>]
    ELSE [me EXCEPT !.pc = first]

SendEnter(t, m) ==
    /\ th[t].pc = "idle"
    /\ calls < MaxCalls
    /\ calls' = calls + 1
    /\ th' = [th EXCEPT ![t] = EnterIo(Enter(@, "send_message", m), "send_encrypt")]
    /\ UNCHANGED <<peer, client, probe, socket, socks, nConnect, nClose, nSendall>>

\* json_data = json.dumps(message); packet = self._encrypt(json_data)
SendEncrypt(t) ==
    /\ th[t].pc = "send_encrypt"
    /\ LET e == _encrypt(json_dumps(th[t].message))
       IN  th' = [th EXCEPT ![t] =
                     IF e.error # ""
                     THEN Raise(@, e.error)
                     ELSE [@ EXCEPT !.packet = e.packet, !.pc = "send_write1"]]
    /\ UNCHANGED <<peer, client, probe, socket, socks, calls, nConnect, nClose, nSendall>>

\* Mutant of SendRetry: the first failed sendall ends the call.
SendRetryGivesUp(me) == Raise(me, SendError)

\* Mutant of SendRetry: reconnects without closing the failed socket.
SendRetryWithoutClose(me) ==
    [me EXCEPT !.pc = "connect_create", !.stack = <<"send_write2">>]

\* The handler of the first sendall's socket.error: self.close(),
\* self._connect(), then the second sendall.
SendRetry(me) ==
    [me EXCEPT !.pc = "close_check", !.stack = <<"connect_create", "send_write2">>]

\* Mutant of SendGiveUp: closes, reconnects and sends again.
SendGiveUpRetries(me) ==
    [me EXCEPT !.pc = "close_check", !.stack = <<"connect_create", "send_write2">>]

\* The handler of the second sendall's socket.error.
SendGiveUp(me) == Raise(me, SendError)

\* self.socket.sendall(packet), first attempt.
SendWrite1(t) ==
    /\ th[t].pc = "send_write1"
    /\ \E res \in SendallOutcomes(socket) :
          /\ socks' = AfterIo(socket, res, 0)
          /\ LET me == Logged(th[t], Event("sendall", socket, th[t].packet, res))
             IN  th' = [th EXCEPT ![t] =
                           CASE res = "ok" -> Return(me, "None")
                             [] res \in {"error", "timeout"} -> SendRetry(me)
                             [] res = "AttributeError" -> Raise(me, "AttributeError")]
    /\ nSendall' = nSendall + 1
    /\ UNCHANGED <<peer, client, probe, socket, calls, nConnect, nClose>>

\* self.socket.sendall(packet), second attempt.
SendWrite2(t) ==
    /\ th[t].pc = "send_write2"
    /\ \E res \in SendallOutcomes(socket) :
          /\ socks' = AfterIo(socket, res, 0)
          /\ LET me == Logged(th[t], Event("sendall", socket, th[t].packet, res))
             IN  th' = [th EXCEPT ![t] =
                           CASE res = "ok" -> Return(me, "None")
                             [] res \in {"error", "timeout"} -> SendGiveUp(me)
                             [] res = "AttributeError" -> Raise(me, "AttributeError")]
    /\ nSendall' = nSendall + 1
    /\ UNCHANGED <<peer, client, probe, socket, calls, nConnect, nClose>>

\* ---------------------------------------------------- receive_message

ReceiveError == "Failed to receive message"

DecodeError == "Failed to decode message"

RecvEnter(t) ==
    /\ th[t].pc = "idle"
    /\ calls < MaxCalls
    /\ calls' = calls + 1
    /\ th' = [th EXCEPT ![t] = EnterIo(Enter(@, "receive_message", "None"), "recv_first")]
    /\ UNCHANGED <<peer, client, probe, socket, socks, nConnect, nClose, nSendall>>

\* Mutant of OnTimeout: a timeout handled as any other socket.error.
OnTimeoutAsError(me) ==
    [me EXCEPT !.raising = ReceiveError,
               !.pc = "close_check",
               !.stack = <<"connect_create", "recv_raise">>]

\* except socket.timeout: return None
OnTimeout(me) == Return(me, "None")

\* Mutant of OnSocketError: closes and raises without reconnecting.
OnSocketErrorNoReconnect(me) ==
    [me EXCEPT !.raising = ReceiveError,
               !.pc = "close_check",
               !.stack = <<"recv_raise">>]

\* Mutant of OnSocketError: reads again on the new connection.
OnSocketErrorRetriesRead(me) ==
    [me EXCEPT !.pc = "close_check", !.stack = <<"connect_create", "recv_first">>]

\* except socket.error: self.close(); self._connect(); raise
\* CommunicationError("Failed to receive message")
OnSocketError(me) ==
    [me EXCEPT !.raising = ReceiveError,
               !.pc = "close_check",
               !.stack = <<"connect_create", "recv_raise">>]

\* The except clauses of receive_message for a recv that raised.
RecvRaised(me, res) ==
    CASE res = "timeout" -> OnTimeout(me)
      [] res = "error" -> OnSocketError(me)
      [] res = "AttributeError" -> Raise(me, "AttributeError")

\* Mutant of OnStreamClosed: reconnects without closing the ended connection.
OnStreamClosedReconnectsOnly(me) ==
    [me EXCEPT !.pc = "connect_create", !.stack = <<"return_none">>]

\* Mutant of OnStreamClosed: returns None without closing and reconnecting.
OnStreamClosedNoReconnect(me) == Return(me, "None")

\* if not first_byte: self.close(); self._connect(); return None
OnStreamClosed(me) ==
    [me EXCEPT !.pc = "close_check", !.stack = <<"connect_create", "return_none">>]

\* Mutant of OnFirstByte: an invalid marker closes and reconnects.
OnFirstByteReconnects(me) ==
    IF me.first_byte[1] # Marker
    THEN [me EXCEPT !.pc = "close_check", !.stack = <<"connect_create", "return_none">>]
    ELSE [me EXCEPT !.pc = "recv_len"]

\* if first_byte[0] != 0x10: return None
OnFirstByte(me) ==
    IF me.first_byte[1] # Marker THEN Return(me, "None") ELSE [me EXCEPT !.pc = "recv_len"]

\* first_byte = self.socket.recv(1)
RecvFirst(t) ==
    /\ th[t].pc = "recv_first"
    /\ \E o \in RecvOutcomes(socket, 1) :
          /\ socks' = AfterIo(socket, o.res, o.k)
          /\ LET me == Logged(th[t], Event("recv", socket, <<>>, o.res))
             IN  th' = [th EXCEPT ![t] =
                           CASE o.res = "ok" ->
                                  OnFirstByte([me EXCEPT !.first_byte = RecvBytes(socket, o.k)])
                             [] o.res = "eof" -> OnStreamClosed(me)
                             [] OTHER -> RecvRaised(me, o.res)]
    /\ UNCHANGED <<peer, client, probe, socket, calls, nConnect, nClose, nSendall>>

\* if len(length_bytes) < 4: return None; else
\* length = struct.unpack(">I", length_bytes)[0] and the payload loop starts
\* (while len(encrypted_data) < length).
OnLengthBytes(me) ==
    IF Len(me.length_bytes) < HeaderLen
    THEN Return(me, "None")
    ELSE LET length == UnpackLength(me.length_bytes)
         IN  [me EXCEPT !.length = length,
                        !.pc = IF 0 < length THEN "recv_payload" ELSE "recv_validate"]

\* length_bytes = self.socket.recv(4)
RecvLength(t) ==
    /\ th[t].pc = "recv_len"
    /\ \E o \in RecvOutcomes(socket, HeaderLen) :
          /\ socks' = AfterIo(socket, o.res, o.k)
          /\ LET me == Logged(th[t], Event("recv", socket, <<>>, o.res))
             IN  th' = [th EXCEPT ![t] =
                           CASE o.res = "ok" ->
                                  OnLengthBytes([me EXCEPT !.length_bytes = RecvBytes(socket, o.k)])
                             [] o.res = "eof" -> OnLengthBytes(me)
                             [] OTHER -> RecvRaised(me, o.res)]
    /\ UNCHANGED <<peer, client, probe, socket, calls, nConnect, nClose, nSendall>>

\* Mutant of OnChunk: the payload is taken from a single read.
OnChunkSingleRead(me, chunk) ==
    [me EXCEPT !.encrypted_data = @ \o chunk, !.pc = "recv_validate"]

\* if not chunk: break; encrypted_data += chunk; and the loop's test.
OnChunk(me, chunk) ==
    IF chunk = <<>>
    THEN [me EXCEPT !.pc = "recv_validate"]
    ELSE [me EXCEPT !.encrypted_data = @ \o chunk,
                    !.pc = IF Len(me.encrypted_data) + Len(chunk) < me.length
                           THEN "recv_payload" ELSE "recv_validate"]

\* chunk = self.socket.recv(length - len(encrypted_data))
RecvPayload(t) ==
    /\ th[t].pc = "recv_payload"
    /\ LET n == th[t].length - Len(th[t].encrypted_data)
       IN  \E o \in RecvOutcomes(socket, n) :
              /\ socks' = AfterIo(socket, o.res, o.k)
              /\ LET me == Logged(th[t], Event("recv", socket, <<>>, o.res))
                 IN  th' = [th EXCEPT ![t] =
                               CASE o.res = "ok" -> OnChunk(me, RecvBytes(socket, o.k))
                                 [] o.res = "eof" -> OnChunk(me, <<>>)
                                 [] OTHER -> RecvRaised(me, o.res)]
    /\ UNCHANGED <<peer, client, probe, socket, calls, nConnect, nClose, nSendall>>

\* Mutant of PayloadRejected: the block-size check is left out.
PayloadRejectedLengthOnly(me) == Len(me.encrypted_data) # me.length

\* The two payload checks: len(encrypted_data) != length, and
\* len(encrypted_data) % 16 != 0; both return None.
PayloadRejected(me) ==
    \/ Len(me.encrypted_data) # me.length
    \/ Len(me.encrypted_data) % BlockSize # 0

\* Mutant of Decode: a text that is not JSON is dropped, not raised.
DecodeSwallowsJsonError(me) ==
    LET d == _decrypt(me.encrypted_data)
        j == json_loads(d.text)
    IN  IF d.error = "UnicodeDecodeError" THEN Raise(me, DecodeError)
        ELSE IF d.error # "" THEN Raise(me, d.error)
        ELSE IF j.error # "" THEN Return(me, "None")
        ELSE Return(me, j.value)

\* response = self._decrypt(encrypted_data); message = json.loads(response);
\* return message.  UnicodeDecodeError and JSONDecodeError become the decode
\* error; the CommunicationError of _decrypt is caught by no except clause.
Decode(me) ==
    LET d == _decrypt(me.encrypted_data)
        j == json_loads(d.text)
    IN  IF d.error = "UnicodeDecodeError" THEN Raise(me, DecodeError)
        ELSE IF d.error # "" THEN Raise(me, d.error)
        ELSE IF j.error # "" THEN Raise(me, DecodeError)
        ELSE Return(me, j.value)

RecvValidate(t) ==
    /\ th[t].pc = "recv_validate"
    /\ th' = [th EXCEPT ![t] = IF PayloadRejected(@) THEN Return(@, "None") ELSE Decode(@)]
    /\ UNCHANGED <<peer, client, probe, socket, socks, calls, nConnect, nClose, nSendall>>

\* raise CommunicationError("Failed to receive message"), after the
\* handler's close and reconnect.
RecvRaise(t) ==
    /\ th[t].pc = "recv_raise"
    /\ th' = [th EXCEPT ![t] = Raise(@, th[t].raising)]
    /\ UNCHANGED <<peer, client, probe, socket, socks, calls, nConnect, nClose, nSendall>>

\* ------------------------------------------------------ specification
\* One thread, the caller, constructs the communicator and then makes
\* send_message, receive_message and close calls one after the other.

Step(t) ==
    \/ Construct(t)
    \/ ConnectCreate(t)
    \/ ConnectConnect(t)
    \/ CloseCheck(t)
    \/ CloseShutdown(t)
    \/ CloseClose(t)
    \/ CloseClear(t)
    \/ ReturnNone(t)
    \/ Close(t)
    \/ \E m \in Messages : SendEnter(t, m)
    \/ SendEncrypt(t)
    \/ SendWrite1(t)
    \/ SendWrite2(t)
    \/ RecvEnter(t)
    \/ RecvFirst(t)
    \/ RecvLength(t)
    \/ RecvPayload(t)
    \/ RecvValidate(t)
    \/ RecvRaise(t)

Next == Step("caller")

Spec == Init /\ [][Next]_vars

\* ------------------------------------------------- LGSoundbarClient
\* A client made with a callback: the caller thread constructs it, which
\* starts the listener thread, then calls methods that send a message, and
\* close(); the listener thread runs _listener.  The two threads share the
\* communicator and take its steps in any order.

\* The errors that are CommunicationError.
CommunicationErrors ==
    {ConnectError, SendError, ReceiveError, DecodeError, "Invalid encrypted data length"}

\* bool(message): None and the empty object are false.
Truthy(value) == value \notin {"None", "EmptyObject"}

\* if callback: self._listening = True; Thread(target=self._listener).start()
\* after the communicator has been constructed.
StartListener ==
    /\ th["caller"].pc = "idle"
    /\ th["caller"].op = "__init__"
    /\ th["listener"].pc = "off"
    /\ client' = [client EXCEPT !._listening = TRUE]
    /\ th' = [th EXCEPT !["listener"].pc = "loop"]
    /\ UNCHANGED <<peer, probe, socket, socks, calls, nConnect, nClose, nSendall>>

\* The client is in use: its listener has been started and close() has not
\* been called.
InUse == th["listener"].pc # "off" /\ ~client.closed

\* get_product_info(): self._communicator.send_message(message.to_dict())
ClientSend ==
    /\ InUse
    /\ calls < MaxSends
    /\ SendEnter("caller", "GetProductInfo")

\* LGSoundbarClient.close: self._listening = False
ClientClose ==
    /\ InUse
    /\ th["caller"].pc = "idle"
    /\ client' = [client EXCEPT !._listening = FALSE, !.closed = TRUE]
    /\ th' = [th EXCEPT !["caller"].pc = "client_close"]
    /\ UNCHANGED <<peer, probe, socket, socks, calls, nConnect, nClose, nSendall>>

\* LGSoundbarClient.close: self._communicator.close()
ClientCloseCommunicator ==
    /\ th["caller"].pc = "client_close"
    /\ th' = [th EXCEPT !["caller"] =
                 [Enter(@, "close", "None") EXCEPT
                     !.pc = "close_check", !.stack = <<"return_none">>]]
    /\ UNCHANGED <<peer, client, probe, socket, socks, calls, nConnect, nClose, nSendall>>

\* Mutant of ListenerTest: the loop does not read the stop flag.
ListenerTestIgnoresFlag ==
    /\ th["listener"].pc = "loop"
    /\ client.iterations < MaxIterations
    /\ client' = [client EXCEPT !.iterations = @ + 1, !.invoked = <<>>]
    /\ th' = [th EXCEPT !["listener"] = InitThread("listen")]
    /\ UNCHANGED <<peer, probe, socket, socks, calls, nConnect, nClose, nSendall>>

\* while self._listening:
ListenerTest ==
    /\ th["listener"].pc = "loop"
    /\ IF client._listening
       THEN /\ client.iterations < MaxIterations
            /\ client' = [client EXCEPT !.iterations = @ + 1, !.invoked = <<>>]
            /\ th' = [th EXCEPT !["listener"] = InitThread("listen")]
       ELSE /\ th' = [th EXCEPT !["listener"].pc = "done"]
            /\ UNCHANGED client
    /\ UNCHANGED <<peer, probe, socket, socks, calls, nConnect, nClose, nSendall>>

\* message = self._communicator.receive_message()
ListenerReceive ==
    /\ th["listener"].pc = "listen"
    /\ th' = [th EXCEPT !["listener"] =
                 EnterIo(Enter(@, "receive_message", "None"), "recv_first")]
    /\ UNCHANGED <<peer, client, probe, socket, socks, calls, nConnect, nClose, nSendall>>

\* if message and self.callback: self.callback(message)
ListenerDeliver ==
    /\ th["listener"].pc = "idle"
    /\ th["listener"].result.kind = "return"
    /\ client' = [client EXCEPT !.invoked =
                     IF Truthy(th["listener"].result.value)
                     THEN Append(@, th["listener"].result.value)
                     ELSE @]
    /\ th' = [th EXCEPT !["listener"].pc = "loop"]
    /\ UNCHANGED <<peer, probe, socket, socks, calls, nConnect, nClose, nSendall>>

\* except CommunicationError: self.logger.warning(...); any other exception
\* ends the thread.
ListenerExcept ==
    /\ th["listener"].pc = "idle"
    /\ th["listener"].result.kind = "raise"
    /\ th' = [th EXCEPT !["listener"].pc =
                 IF th["listener"].result.value \in CommunicationErrors
                 THEN "loop" ELSE "dead"]
    /\ UNCHANGED <<peer, client, probe, socket, socks, calls, nConnect, nClose, nSendall>>

\* The steps of _connect and close, which both threads take.
Shared(t) ==
    \/ ConnectCreate(t)
    \/ ConnectConnect(t)
    \/ CloseCheck(t)
    \/ CloseShutdown(t)
    \/ CloseClose(t)
    \/ CloseClear(t)
    \/ ReturnNone(t)

CallerStep ==
    \/ Construct("caller")
    \/ StartListener
    \/ ClientSend
    \/ SendEncrypt("caller")
    \/ SendWrite1("caller")
    \/ SendWrite2("caller")
    \/ ClientClose
    \/ ClientCloseCommunicator
    \/ Shared("caller")

ListenerStep ==
    \/ ListenerTest
    \/ ListenerReceive
    \/ RecvFirst("listener")
    \/ RecvLength("listener")
    \/ RecvPayload("listener")
    \/ RecvValidate("listener")
    \/ RecvRaise("listener")
    \/ ListenerDeliver
    \/ ListenerExcept
    \/ Shared("listener")

ClientNext == CallerStep \/ ListenerStep

\* The device of a client stays silent on a connection, or sends one frame,
\* of the empty object, and shuts the stream down.
ClientPeer == {2, 4}

ClientInit == InitFrom("new") /\ probe = NoProbe /\ peer = ClientPeer

ClientSpec == ClientInit /\ [][ClientNext]_vars

\* ------------------------------------------------------------ claims

Caller == th["caller"]

\* The places of the socket calls named ev in a call's record.
At(log, ev) == {i \in DOMAIN log : log[i].ev = ev}

\* The places of the socket calls named ev that ended res.
AtRes(log, ev, res) == {i \in At(log, ev) : log[i].res \in res}

After(places, i) == {j \in places : j > i}

Before(places, i) == {j \in places : j < i}

Least(places) == CHOOSE i \in places : \A j \in places : i <= j

Greatest(places) == CHOOSE i \in places : \A j \in places : j <= i

Finished(op) == Caller.pc = "idle" /\ Caller.op = op

ReturnedNone == Caller.result = [kind |-> "return", value |-> "None"]

Raised(error) == Caller.result = [kind |-> "raise", value |-> error]

\* The communicator holds a socket whose connect succeeded and on which no
\* call has failed.
HoldsConnected == socket # 0 /\ socks[socket].st = "connected"

\* C1: a send_message whose first sendall fails with a socket error and whose
\* second sendall succeeds returns None; it made exactly two sendall calls,
\* both of the packet of its message, with exactly one close and one connect
\* between them; as the first call on a communicator that was constructed
\* connected, that makes two connects, two sendalls and one close in all.
C1_SendRetriesOnce ==
    LET log == Caller.log
        W == At(log, "sendall")
    IN  ( /\ Caller.op = "send_message"
          /\ \E i, j \in W : /\ i < j
                             /\ log[i].res \in {"error", "timeout"}
                             /\ log[j].res = "ok" )
        => /\ Finished("send_message")
           /\ ReturnedNone
           /\ Cardinality(W) = 2
           /\ \A i \in W : log[i].pkt = _encrypt(json_dumps(Caller.message)).packet
           /\ Cardinality({c \in At(log, "close") : Least(W) < c /\ c < Greatest(W)}) = 1
           /\ Cardinality({c \in At(log, "connect") : Least(W) < c /\ c < Greatest(W)}) = 1
           /\ After(At(log, "close") \cup At(log, "connect"), Greatest(W)) = {}
           /\ Before(At(log, "close"), Least(W)) = {}
           /\ (Caller.sock0 # 0 => Cardinality(At(log, "connect")) = 1)
           /\ (calls = 1 => nConnect = 2 /\ nSendall = 2 /\ nClose = 1)

C1_Witness ==
    /\ Finished("send_message")
    /\ calls = 1
    /\ ReturnedNone
    /\ AtRes(Caller.log, "sendall", {"error"}) # {}
    /\ AtRes(Caller.log, "sendall", {"ok"}) # {}
    /\ nConnect = 2

\* C2: a send_message never makes a third sendall nor reconnects twice; when
\* both of its sendall calls fail it raises the send error, after exactly
\* one close and one reconnect between the two.
C2_SendGivesUpAfterTwo ==
    LET log == Caller.log
        W == At(log, "sendall")
    IN  Caller.op = "send_message"
        => /\ Cardinality(W) <= 2
           /\ (W # {} => Cardinality(After(At(log, "connect"), Least(W))) <= 1)
           /\ ( Cardinality(AtRes(log, "sendall", {"error", "timeout"})) = 2
                => /\ Finished("send_message")
                   /\ Raised(SendError)
                   /\ Cardinality(After(At(log, "connect"), Least(W))) = 1
                   /\ Cardinality(After(At(log, "close"), Least(W))) = 1
                   /\ After(At(log, "connect") \cup At(log, "close"), Greatest(W)) = {} )

C2_Witness ==
    /\ Finished("send_message")
    /\ Raised(SendError)
    /\ Cardinality(AtRes(Caller.log, "sendall", {"error", "timeout"})) = 2

\* A recv of the call timed out.
TimedOut == AtRes(Caller.log, "recv", {"timeout"}) # {}

\* C3 as stated: a receive_message in which a recv times out returns None,
\* makes no close and no connect, and leaves self.socket as it was.
C3_TimeoutNoCloseNoConnect ==
    (Caller.op = "receive_message" /\ TimedOut)
    => /\ Finished("receive_message")
       /\ ReturnedNone
       /\ At(Caller.log, "close") = {}
       /\ At(Caller.log, "connect") = {}
       /\ socket = Caller.sock0

\* C3 amended: a receive_message in which a recv times out returns None and
\* makes no close; entered holding a socket it makes no connect and
\* self.socket is unchanged; entered holding none, its only connect is the
\* one at entry, before the first recv.  Either way the socket the recv was
\* made on is still held and connected.
C3_TimeoutKeepsConnection ==
    LET log == Caller.log
    IN  (Caller.op = "receive_message" /\ TimedOut)
        => /\ Finished("receive_message")
           /\ ReturnedNone
           /\ At(log, "close") = {}
           /\ At(log, "shutdown") = {}
           /\ ( Caller.sock0 # 0
                => /\ At(log, "connect") = {}
                   /\ socket = Caller.sock0 )
           /\ ( Caller.sock0 = 0
                => /\ Cardinality(At(log, "connect")) = 1
                   /\ \A c \in At(log, "connect") : Before(At(log, "recv"), c) = {} )
           /\ HoldsConnected
           /\ \A i \in At(log, "recv") : log[i].sock = socket

C3_Witness ==
    /\ Finished("receive_message")
    /\ TimedOut
    /\ Caller.sock0 # 0
    /\ Caller.first_byte = <<Marker>>
    /\ Len(Caller.length_bytes) = HeaderLen
    /\ Caller.encrypted_data # <<>>

\* The first recv of the call returned no byte.
FirstReadEmpty ==
    /\ Caller.first_byte = <<>>
    /\ AtRes(Caller.log, "recv", {"eof"}) # {}

\* C4 as stated: a receive_message whose first recv returns no byte returns
\* None after exactly one close and one connect, holding a connected socket.
C4_EofReturnsNoneReconnected ==
    LET log == Caller.log
    IN  (Finished("receive_message") /\ FirstReadEmpty)
        => /\ ReturnedNone
           /\ Cardinality(At(log, "close")) = 1
           /\ Cardinality(After(At(log, "connect"), Least(At(log, "recv")))) = 1
           /\ HoldsConnected

\* C4 amended: a receive_message whose first recv returns no byte closes the
\* socket exactly once and then makes exactly one connect attempt, without
\* another recv.  If that connect succeeds the call returns None holding the
\* new connected socket; if it fails the call raises the connect error and
\* holds no connected socket.
C4_EofReconnects ==
    LET log == Caller.log
        r == Least(At(log, "recv"))
    IN  (Finished("receive_message") /\ FirstReadEmpty)
        => /\ Cardinality(At(log, "recv")) = 1
           /\ Cardinality(At(log, "close")) = 1
           /\ Before(At(log, "close"), r) = {}
           /\ Cardinality(After(At(log, "connect"), r)) = 1
           /\ \A c \in After(At(log, "connect"), r) : After(At(log, "close"), c) = {}
           /\ socks[log[r].sock].st = "closed"
           /\ ReturnedNone \/ Raised(ConnectError)
           /\ ReturnedNone <=> AtRes(log, "connect", {"ok"}) \cap After(At(log, "connect"), r) # {}
           /\ (ReturnedNone => HoldsConnected /\ socket # log[r].sock)
           /\ (Raised(ConnectError) => ~HoldsConnected)

C4_Witness ==
    /\ Finished("receive_message")
    /\ FirstReadEmpty
    /\ ReturnedNone
    /\ calls = 1
    /\ nConnect = 2
    /\ nClose = 1

\* A recv of the call failed with a socket error that is no timeout.
ReadFailed == AtRes(Caller.log, "recv", {"error"}) # {}

\* C5 as stated: a receive_message in which a recv fails with a socket error
\* closes, reconnects exactly once and raises the receive error, without
\* another recv.
C5_ReadErrorRaisesReceiveError ==
    LET log == Caller.log
        e == Least(AtRes(log, "recv", {"error"}))
    IN  (Finished("receive_message") /\ ReadFailed)
        => /\ Raised(ReceiveError)
           /\ Cardinality(After(At(log, "close"), e)) = 1
           /\ Cardinality(After(At(log, "connect"), e)) = 1
           /\ After(At(log, "recv"), e) = {}

\* C5 amended: a receive_message in which a recv fails with a socket error
\* closes the socket and then makes exactly one connect attempt, without
\* another recv.  If that connect succeeds the call raises the receive error; if it
\* fails the call raises the connect error.
C5_ReadErrorReconnectsThenRaises ==
    LET log == Caller.log
        e == Least(AtRes(log, "recv", {"error"}))
    IN  (Finished("receive_message") /\ ReadFailed)
        => /\ After(At(log, "recv"), e) = {}
           /\ Cardinality(After(At(log, "close"), e)) = 1
           /\ Cardinality(After(At(log, "connect"), e)) = 1
           /\ \A c \in After(At(log, "connect"), e) : After(At(log, "close"), c) = {}
           /\ Raised(ReceiveError) \/ Raised(ConnectError)
           /\ ( Raised(ReceiveError)
                <=> AtRes(log, "connect", {"ok"}) \cap After(At(log, "connect"), e) # {} )
           /\ (Raised(ReceiveError) => HoldsConnected /\ socket # log[e].sock)

C5_Witness ==
    /\ Finished("receive_message")
    /\ ReadFailed
    /\ Raised(ReceiveError)
    /\ Caller.first_byte = <<Marker>>
    /\ nClose = 1

\* The call ended by raising an error to its caller.
RaisedAny == Caller.result.kind = "raise"

\* C6 as stated: after a send_message or receive_message that raised, the
\* communicator holds a connected socket.
C6_ErrorLeavesConnected ==
    ((Finished("send_message") \/ Finished("receive_message")) /\ RaisedAny)
    => HoldsConnected

\* C6 amended: after a receive_message that raised the receive error or the
\* decode error the communicator holds a connected socket (after the receive
\* error: a new one, connected after the failure and not read from yet).
\* After a call that raised the connect error it holds no connected socket;
\* after a send_message that raised the send error it holds the socket of
\* the reconnect, on which the last sendall failed.
C6_ReceiveErrorLeavesConnected ==
    LET log == Caller.log
    IN  /\ ( (Finished("receive_message") /\ (Raised(ReceiveError) \/ Raised(DecodeError)))
             => HoldsConnected )
        /\ ( (Finished("receive_message") /\ Raised(ReceiveError))
             => /\ socks[socket].rpos = 0
                /\ \A i \in At(log, "recv") : log[i].sock # socket )
        /\ ( ((Finished("send_message") \/ Finished("receive_message")) /\ Raised(ConnectError))
             => ~HoldsConnected )
        /\ ( (Finished("send_message") /\ Raised(SendError))
             => /\ socket # 0
                /\ log[Len(log)].ev = "sendall"
                /\ log[Len(log)].sock = socket
                /\ log[Len(log)].res \in {"error", "timeout"} )

C6_Witness ==
    /\ Finished("receive_message")
    /\ Raised(ReceiveError)
    /\ Len(Caller.length_bytes) = HeaderLen
    /\ HoldsConnected

\* No recv of the call raised.
Quiet == AtRes(Caller.log, "recv", {"timeout", "error"}) = {}

\* C7: a receive_message none of whose reads raises returns None when the
\* first byte is not 0x10, when the length header read gives fewer than 4
\* bytes, when the payload reads end before length bytes have come, and when
\* the payload read is not a multiple of 16 bytes long.
C7_MalformedFrameReturnsNone ==
    (Finished("receive_message") /\ Quiet)
    => /\ ( (Caller.first_byte # <<>> /\ Caller.first_byte[1] # Marker) => ReturnedNone )
       /\ ( (Caller.first_byte = <<Marker>> /\ Len(Caller.length_bytes) < HeaderLen)
            => ReturnedNone )
       /\ ( ( Len(Caller.length_bytes) = HeaderLen
              /\ Len(Caller.encrypted_data) < Caller.length )
            => ReturnedNone )
       /\ ( Len(Caller.encrypted_data) % BlockSize # 0 => ReturnedNone )

C7_Witness ==
    /\ Finished("receive_message")
    /\ Quiet
    /\ Len(Caller.length_bytes) = HeaderLen
    /\ Caller.length = 8
    /\ Len(Caller.encrypted_data) = 8
    /\ ReturnedNone

\* C8: receive_message never raises the invalid-length error of _decrypt: a
\* frame whose length is 0 or no multiple of 16 is reported as None.
C8_NeverRaisesInvalidLength ==
    /\ ~(Caller.op = "receive_message" /\ Raised("Invalid encrypted data length"))
    /\ ( ( /\ Finished("receive_message")
           /\ Quiet
           /\ Len(Caller.length_bytes) = HeaderLen
           /\ (Caller.length = 0 \/ Caller.length % BlockSize # 0) )
         => ReturnedNone )

\* The call read a whole frame: the marker, 4 length bytes and a payload of
\* that length, a positive multiple of 16.
FrameRead ==
    /\ Caller.first_byte = <<Marker>>
    /\ Len(Caller.length_bytes) = HeaderLen
    /\ Caller.length > 0
    /\ Len(Caller.encrypted_data) = Caller.length
    /\ Caller.length % BlockSize = 0

\* What decryption and padding removal make of the payload read.
Plaintext == StripPadding(AesDecrypt(Caller.encrypted_data))

\* C9: a receive_message that read a whole frame whose plaintext is not
\* UTF-8 or not JSON raises the decode error; it makes no close, and no
\* connect after its first recv, and still holds the connected socket it
\* read from.
C9_UndecodableRaisesDecodeError ==
    LET log == Caller.log
    IN  ( /\ Finished("receive_message")
          /\ FrameRead
          /\ (~Utf8Valid(Plaintext) \/ json_loads(Plaintext).error # "") )
        => /\ Raised(DecodeError)
           /\ At(log, "close") = {}
           /\ At(log, "shutdown") = {}
           /\ After(At(log, "connect"), Least(At(log, "recv"))) = {}
           /\ HoldsConnected
           /\ \A i \in At(log, "recv") : log[i].sock = socket

C9_Witness ==
    /\ Finished("receive_message")
    /\ FrameRead
    /\ Plaintext = TextOpenBrace
    /\ Raised(DecodeError)

\* C10: every recv and sendall of a call is made on a socket whose connect
\* succeeded (and which has not been closed since).
C10_IoOnlyOnConnected ==
    \A i \in At(Caller.log, "recv") \cup At(Caller.log, "sendall") :
        Caller.log[i].on \in {"connected", "reset"}

\* The texts json.loads is given in the model are its documents, the empty
\* text and "{": on these json_loads is exact.
JsonLoadsExact ==
    (Caller.pc = "recv_validate" /\ ~PayloadRejected(Caller)
        /\ ~InvalidLength(Caller.encrypted_data) /\ Utf8Valid(Plaintext))
    => Plaintext \in {json_dumps(m) : m \in Messages} \cup {<<>>, TextOpenBrace}

\* C18: close() returns None and leaves self.socket None in every state.  On
\* a held socket it calls shutdown once, whatever that answers, then close
\* once, both on that socket; with no socket held it makes no socket call.
C18_CloseIdempotent ==
    LET log == Caller.log
    IN  Finished("close")
        => /\ ReturnedNone
           /\ socket = 0
           /\ ( Caller.sock0 # 0
                => /\ Len(log) = 2
                   /\ log[1].ev = "shutdown" /\ log[1].sock = Caller.sock0
                   /\ log[2].ev = "close" /\ log[2].sock = Caller.sock0
                   /\ socks[Caller.sock0].st = "closed" )
           /\ ( Caller.sock0 = 0 => log = <<>> )

\* A close() made with no socket held, after a close() that released one.
C18_Witness ==
    /\ Finished("close")
    /\ Caller.sock0 = 0
    /\ nClose = 1
    /\ ReturnedNone

\* A close() whose shutdown failed.
C18_WitnessShutdownError ==
    /\ Finished("close")
    /\ Caller.sock0 # 0
    /\ Caller.log[1].res = "error"

\* C19: the constructor makes exactly one connect call.  If it succeeds the
\* constructor returns and the communicator holds a connected socket; if it
\* fails the constructor raises the connect error and connects no second time.
C19_ConstructConnectsOnce ==
    LET log == Caller.log
    IN  (Caller.op = "__init__" /\ Caller.pc \in {"idle", "failed"})
        => /\ nConnect = 1
           /\ Cardinality(At(log, "connect")) = 1
           /\ Len(socks) = 1
           /\ ( log[1].res = "ok"
                => Caller.pc = "idle" /\ ReturnedNone /\ HoldsConnected )
           /\ ( log[1].res = "error"
                => Caller.pc = "failed" /\ Raised(ConnectError) /\ ~HoldsConnected )
           /\ log[1].res \in {"ok", "error"}

\* The constructor failed.
C19_Witness ==
    /\ Caller.op = "__init__"
    /\ Caller.pc = "failed"
    /\ Raised(ConnectError)

\* C20 as stated: _encrypt gives a packet for every text, and _decrypt of
\* the packet without its 5-byte prelude gives the text back.
C20_RoundTrip ==
    /\ (probe.stage = "encrypted" => probe.error = "")
    /\ (probe.stage = "decrypted" => probe.error = "" /\ probe.text = probe.data)

\* C20 amended: _encrypt raises ValueError exactly for the texts whose padded
\* UTF-8 form is not block-aligned or is longer than 255 bytes; for every
\* other text, of length 0 and of a multiple of 16 included, _decrypt of the
\* packet without its 5-byte prelude gives the text back.
C20_RoundTripOfPackets ==
    /\ ( probe.stage = "encrypted"
         => ( probe.error # ""
              <=> \/ Len(Utf8Encode(Pad(probe.data))) % BlockSize # 0
                  \/ Len(Utf8Encode(Pad(probe.data))) > MaxLengthByte ) )
    /\ ( probe.stage = "encrypted" /\ probe.error # "" => probe.error = "ValueError" )
    /\ ( probe.stage = "decrypted" => probe.error = "" /\ probe.text = probe.data )

\* A text of 16 characters has made the round trip.
C20_Witness ==
    /\ probe.stage = "decrypted"
    /\ Len(probe.data) = BlockSize
    /\ probe.text = probe.data

\* The empty text has made the round trip.
C20_WitnessEmpty ==
    /\ probe.stage = "decrypted"
    /\ probe.data = <<>>
    /\ probe.text = <<>>

\* cipher.encrypt accepts the padded text of data: its UTF-8 form is
\* block-aligned.
HasCiphertext(data) == Len(Utf8Encode(Pad(data))) % BlockSize = 0

\* encrypted_data of _encrypt(data), for a text that has one.
Ciphertext(data) == AesEncrypt(Utf8Encode(Pad(data)))

\* C21: for every plaintext whose ciphertext has a length L of at most 255,
\* _encrypt gives the packet [0x10, 0, 0, 0, L] followed by the L bytes of
\* the ciphertext, 5 + L bytes in all; the inbound rule (big-endian 32-bit
\* unsigned) reads L from bytes 1..4, and L is a multiple of 16.
C21_PacketLayout ==
    ( /\ probe.stage = "encrypted"
      /\ HasCiphertext(probe.data)
      /\ Len(Ciphertext(probe.data)) <= MaxLengthByte )
    => LET L == Len(Ciphertext(probe.data))
       IN  /\ probe.error = ""
           /\ Len(probe.packet) = 1 + HeaderLen + L
           /\ Take(probe.packet, 1 + HeaderLen) = <<Marker, 0, 0, 0, L>>
           /\ Drop(probe.packet, 1 + HeaderLen) = Ciphertext(probe.data)
           /\ UnpackLength(SubSeq(probe.packet, 2, 1 + HeaderLen)) = L
           /\ L % BlockSize = 0

\* _encrypt has given the longest packet there is: 240 bytes of ciphertext.
C21_Witness ==
    /\ probe.stage = "encrypted"
    /\ probe.error = ""
    /\ Len(probe.packet) = 1 + HeaderLen + MaxLengthByte - (MaxLengthByte % BlockSize)
    /\ probe.packet[1 + HeaderLen] = MaxLengthByte - (MaxLengthByte % BlockSize)

\* C22: _decrypt raises the invalid-length error for the empty input and for
\* every input whose length is not a multiple of 16, and for no other input.
C22_InvalidLengthExactly ==
    /\ ( probe.stage = "opened"
         => ( probe.error = "Invalid encrypted data length"
              <=> (probe.packet = <<>> \/ Len(probe.packet) % BlockSize # 0) ) )
    /\ ( probe.stage = "decrypted" => probe.error # "Invalid encrypted data length" )

\* _decrypt has raised the invalid-length error for the empty input.
C22_Witness ==
    /\ probe.stage = "opened"
    /\ probe.packet = <<>>
    /\ probe.error = "Invalid encrypted data length"

\* _decrypt has not raised it for an input of 32 bytes.
C22_WitnessAligned ==
    /\ probe.stage = "opened"
    /\ Len(probe.packet) = 2 * BlockSize
    /\ probe.error # "Invalid encrypted data length"

\* C23: a plaintext of n bytes is padded with p = 16 - (n mod 16) bytes of
\* value p, 1 <= p <= 16, and its ciphertext has n + p bytes, the smallest
\* multiple of 16 greater than n.
C23_PadsToNextBlock ==
    probe.stage = "encrypted"
    => LET bytes == Utf8Encode(probe.data)
           n == Len(bytes)
           p == BlockSize - (n % BlockSize)
       IN  /\ p \in 1..BlockSize
           /\ Utf8Encode(Pad(probe.data)) = bytes \o Repeat(p, p)
           /\ (probe.error = "" => Len(probe.packet) - (1 + HeaderLen) = n + p)
           /\ (n + p <= MaxLengthByte => probe.error = "")

\* C27: for every non-empty block-aligned ciphertext, _decrypt returns the
\* decrypted bytes without their last p bytes, p being the value of the last
\* decrypted byte: all of them for p = 0, none for p at or above the length
\* (stated for the results that are text, i.e. valid UTF-8).
C27_StripsPaddingBytes ==
    ( probe.stage = "opened" /\ ~InvalidLength(probe.packet) )
    => LET d == AesDecrypt(probe.packet)
           p == d[Len(d)]
           kept == IF p >= Len(d) THEN <<>> ELSE Take(d, Len(d) - p)
       IN  Utf8Valid(kept) => (probe.error = "" /\ Utf8Encode(probe.text) = kept)

\* The bytes the peer sends on the socket the communicator holds.
Inbound == Streams[socks[socket].stream].bytes

\* The call read from the socket the communicator still holds, and from no
\* other, and that socket is connected.
ReadOnHeld ==
    /\ HoldsConnected
    /\ At(Caller.log, "recv") # {}
    /\ \A i \in At(Caller.log, "recv") : Caller.log[i].sock = socket

\* C16: when the peer sends whole frames only, a receive_message that ends
\* with its connection kept leaves the stream at the start of a frame.
C16_EndsAtFrameBoundary ==
    (Finished("receive_message") /\ ReadOnHeld /\ WellFramed(Inbound, 0))
    => socks[socket].rpos \in FrameStarts(Inbound, 0)

\* The call returned a decoded object.
ReturnedObject == Caller.result.kind = "return" /\ Caller.result.value \in Messages

\* Every sendall of a send_message writes the whole frame of the message of
\* that call, and a send_message that returns ends with the one sendall that
\* succeeded.  A receive_message that returns an object on a stream of whole
\* frames has read exactly one of the peer's frames, from its start to its
\* end, and returns the object of that frame.
WholeFrames ==
    LET log == Caller.log
        W == At(log, "sendall")
        r == socks[socket].rpos
        p == r - (1 + HeaderLen + Caller.length)
    IN  /\ ( Caller.op = "send_message"
             => \A i \in W : log[i].pkt = _encrypt(json_dumps(Caller.message)).packet )
        /\ ( (Finished("send_message") /\ ReturnedNone)
             => /\ Cardinality(AtRes(log, "sendall", {"ok"})) = 1
                /\ log[Len(log)].ev = "sendall" /\ log[Len(log)].res = "ok" )
        /\ ( (Finished("receive_message") /\ ReturnedObject /\ ReadOnHeld
                /\ WellFramed(Inbound, 0))
             => /\ p \in FrameStarts(Inbound, 0)
                /\ r = FrameEnd(Inbound, p)
                /\ json_dumps(Caller.result.value)
                     = Utf8Decode(StripPadding(AesDecrypt(SubSeq(Inbound, p + 2 + HeaderLen, r)))) )

FrameStart == socks[socket].rpos - (1 + Len(Caller.length_bytes) + Len(Caller.encrypted_data))

\* The peer has sent the whole frame the call reads: after the marker and
\* the 4 length bytes, the stream holds the length bytes of payload.
FrameDelivered ==
    /\ Caller.first_byte = <<Marker>>
    /\ Len(Caller.length_bytes) = HeaderLen
    /\ Caller.length <= Len(Inbound) - (FrameStart + 1 + HeaderLen)

\* The payload of that frame, as the peer sent it.
Delivered ==
    SubSeq(Inbound, FrameStart + 2 + HeaderLen, FrameStart + 1 + HeaderLen + Caller.length)

\* A payload that is the ciphertext of a JSON document.
ValidPayload(payload) ==
    /\ Len(payload) > 0
    /\ Len(payload) % BlockSize = 0
    /\ _decrypt(payload).error = ""
    /\ json_loads(_decrypt(payload).text).error = ""

\* The payload loop has read a part of the payload and reads on.
MidPayload ==
    /\ Caller.op = "receive_message"
    /\ Caller.pc = "recv_payload"
    /\ Caller.encrypted_data # <<>>

\* C24: when the peer has sent a whole valid frame and no read of the call
\* times out or fails, then however the payload is split over the reads,
\* the payload loop reads on while fewer than L bytes have come, and the call
\* ends having read exactly the L payload bytes, 1 + 4 + L bytes from the
\* start of the frame, and returns the JSON value of the decrypted payload.
C24_SplitPayloadReassembled ==
    /\ []( ( /\ Finished("receive_message")
             /\ Quiet
             /\ ReadOnHeld
             /\ FrameDelivered
             /\ ValidPayload(Delivered) )
           => /\ Caller.encrypted_data = Delivered
              /\ socks[socket].rpos = FrameStart + 1 + HeaderLen + Caller.length
              /\ Caller.result =
                    [kind |-> "return", value |-> json_loads(_decrypt(Delivered).text).value] )
    /\ []( MidPayload
           => /\ Len(Caller.encrypted_data) < Caller.length
              /\ (HoldsConnected /\ FrameDelivered
                    => Caller.encrypted_data = Take(Delivered, Len(Caller.encrypted_data))) )
    /\ [][ ( /\ Caller.pc = "recv_payload"
             /\ Len(Caller'.encrypted_data) > Len(Caller.encrypted_data)
             /\ Len(Caller'.encrypted_data) < Caller.length )
           => Caller'.pc = "recv_payload" ]_vars

\* A read of the payload loop has handed over a part of the payload of a
\* whole valid frame: the loop is about to read the rest.
C24_Witness ==
    /\ MidPayload
    /\ HoldsConnected
    /\ FrameDelivered
    /\ ValidPayload(Delivered)
    /\ Len(Caller.encrypted_data) < Caller.length

\* The call has returned the object of a frame it read to its end.
C24_WitnessReturned ==
    /\ Finished("receive_message")
    /\ Quiet
    /\ ReadOnHeld
    /\ FrameDelivered
    /\ ValidPayload(Delivered)
    /\ Caller.result = [kind |-> "return", value |-> "V1"]

\* C25: the read of the 4 length bytes is a readExactly: a call none of whose
\* reads times out or fails ends with fewer than 4 length bytes only when the
\* stream has ended, so a frame whose header comes in more than one piece is
\* not dropped.
C25_HeaderReadExactly ==
    ( /\ Finished("receive_message")
      /\ Quiet
      /\ ReadOnHeld
      /\ Caller.first_byte = <<Marker>>
      /\ Len(Caller.length_bytes) < HeaderLen )
    => /\ Avail(socket) = 0
       /\ Streams[socks[socket].stream].eof

\* The call was entered holding the socket a failed connect has left: its
\* first socket call is a sendall on a socket that never connected.
EnteredAfterFailedConnect ==
    /\ Caller.log # <<>>
    /\ Caller.log[1].ev = "sendall"
    /\ Caller.log[1].sock = Caller.sock0
    /\ Caller.log[1].on = "new"

\* C26: a send_message made after a connect has failed (in a reconnect of an
\* earlier call) makes a new connect attempt; when that connect and the
\* write on the new connection succeed, the call writes the frame of its
\* message there and returns without error.
C26_NextSendReconnects ==
    LET log == Caller.log
    IN  (Finished("send_message") /\ EnteredAfterFailedConnect)
        => /\ Cardinality(At(log, "connect")) = 1
           /\ \A i \in At(log, "connect") : log[i].sock # Caller.sock0
           /\ ( ( /\ AtRes(log, "connect", {"error"}) = {}
                  /\ \A i \in At(log, "sendall") :
                        log[i].on = "connected" => log[i].res = "ok" )
                => /\ ReturnedNone
                   /\ log[Len(log)] =
                         [ ev |-> "sendall",
                           sock |-> socket,
                           on |-> "connected",
                           pkt |-> _encrypt(json_dumps(Caller.message)).packet,
                           res |-> "ok" ]
                   /\ HoldsConnected )

\* A send_message entered after a failed connect has returned.
C26_Witness ==
    /\ Finished("send_message")
    /\ EnteredAfterFailedConnect
    /\ ReturnedNone
    /\ HoldsConnected

\* The ciphertext of the message is longer than 255 bytes.
TooLong(message) ==
    /\ HasCiphertext(json_dumps(message))
    /\ Len(Ciphertext(json_dumps(message))) > MaxLengthByte

\* C28: every frame send_message hands to sendall has a length byte equal to
\* the length of its ciphertext; for a message whose ciphertext is longer
\* than 255 bytes the call makes no sendall at all and ends by raising.
C28_LongMessageNotSent ==
    LET log == Caller.log
    IN  Caller.op = "send_message"
        => /\ \A i \in At(log, "sendall") :
                 /\ Len(log[i].pkt) > 1 + HeaderLen
                 /\ Take(log[i].pkt, HeaderLen) = <<Marker, 0, 0, 0>>
                 /\ log[i].pkt[1 + HeaderLen] = Len(log[i].pkt) - (1 + HeaderLen)
           /\ ( TooLong(Caller.message)
                => /\ At(log, "sendall") = {}
                   /\ Caller.pc \notin {"send_write1", "send_write2"}
                   /\ (Finished("send_message") => Caller.result.kind = "raise") )

\* A send_message of a message that is too long has raised, nothing sent.
C28_Witness ==
    /\ Finished("send_message")
    /\ TooLong(Caller.message)
    /\ Caller.result = [kind |-> "raise", value |-> "ValueError"]
    /\ At(Caller.log, "sendall") = {}

\* C29: with one calling thread, whatever the calls made and whichever
\* connects, reads and writes fail, every socket the communicator has
\* created is closed, but for the one it holds, if it holds one.
C29_NoSocketLeak ==
    \A s \in DOMAIN socks : s # socket => socks[s].st = "closed"

\* Three sockets have been created in turn; the first two are closed and the
\* third is held, connected, after a call has ended.
C29_Witness ==
    /\ Caller.pc = "idle"
    /\ Len(socks) = 3
    /\ socket = 3
    /\ HoldsConnected
    /\ socks[1].st = "closed"
    /\ socks[2].st = "closed"
    /\ nClose = 2

\* The call returned None for a malformed frame: none of its reads raised,
\* its first read gave a byte, and the marker was invalid, or the length
\* header short, or the payload short (ended by an empty read), or the
\* payload length no multiple of 16.
MalformedFrame ==
    /\ Finished("receive_message")
    /\ ReturnedNone
    /\ Quiet
    /\ Caller.first_byte # <<>>
    /\ \/ Caller.first_byte[1] # Marker
       \/ Len(Caller.length_bytes) < HeaderLen
       \/ Len(Caller.encrypted_data) # Caller.length
       \/ Len(Caller.encrypted_data) % BlockSize # 0

\* C30 as stated: a receive_message that returns None for a malformed frame
\* makes no close and no connect and leaves self.socket as it was; a
\* receive_message closes only after an empty first read or a socket error.
C30_MalformedNoCloseNoConnect ==
    LET log == Caller.log
    IN  /\ ( (Caller.op = "receive_message" /\ At(log, "close") # {})
             => (FirstReadEmpty \/ ReadFailed) )
        /\ ( MalformedFrame
             => /\ At(log, "close") = {}
                /\ At(log, "shutdown") = {}
                /\ At(log, "connect") = {}
                /\ socket = Caller.sock0 )

\* C30 amended: a receive_message closes (and then reconnects) only after an
\* empty first read or a socket error; one that returns None for a malformed
\* frame makes no close; entered holding a socket it makes no connect and
\* self.socket is unchanged; entered holding none, its only connect is the
\* one at entry, before the first recv.  Either way the socket it read from
\* is still held and connected.
C30_MalformedKeepsConnection ==
    LET log == Caller.log
    IN  /\ ( (Caller.op = "receive_message" /\ At(log, "close") # {})
             => (FirstReadEmpty \/ ReadFailed) )
        /\ ( (Caller.op = "receive_message" /\ At(log, "recv") # {})
             => After(At(log, "connect"), Least(At(log, "recv"))) \subseteq
                   After(At(log, "connect"), Least(At(log, "close") \cup {Len(log) + 1})) )
        /\ ( MalformedFrame
             => /\ At(log, "close") = {}
                /\ At(log, "shutdown") = {}
                /\ ( Caller.sock0 # 0
                     => /\ At(log, "connect") = {}
                        /\ socket = Caller.sock0 )
                /\ ( Caller.sock0 = 0
                     => /\ Cardinality(At(log, "connect")) = 1
                        /\ \A c \in At(log, "connect") : Before(At(log, "recv"), c) = {} )
                /\ HoldsConnected
                /\ \A i \in At(log, "recv") : log[i].sock = socket )

\* A call entered holding a socket has returned None for a payload that
\* ended before its length; it still holds that socket.
C30_Witness ==
    /\ MalformedFrame
    /\ Caller.sock0 # 0
    /\ socket = Caller.sock0
    /\ Len(Caller.length_bytes) = HeaderLen
    /\ Len(Caller.encrypted_data) < Caller.length
    /\ At(Caller.log, "connect") = {}

\* A call entered holding no socket has returned None for an invalid
\* marker, after the connect at its entry.
C30_WitnessAfterClose ==
    /\ MalformedFrame
    /\ Caller.sock0 = 0
    /\ Caller.first_byte[1] # Marker
    /\ Cardinality(At(Caller.log, "connect")) = 1

\* ----------------------------------------- claims about the client

Listener == th["listener"]

\* The positions at which a thread is about to call recv or sendall.
IoSteps == {"recv_first", "recv_len", "recv_payload", "send_write1", "send_write2"}

\* The listener thread has ended: its loop has exited, or an exception that
\* _listener does not catch has ended it.
ListenerStopped == Listener.pc \in {"done", "dead"}

\* C11: with the caller thread sending and the listener thread receiving,
\* and before any close() of the client, no recv or sendall is made while
\* self.socket is None or closed, and a send_message ends by returning after
\* its frame was written or by raising a communication error.
C11_ConcurrentIoSafe ==
    /\ []( (~client.closed /\ Caller.pc = "idle" /\ Caller.op = "send_message")
           => \/ ReturnedNone
              \/ (RaisedAny /\ Caller.result.value \in CommunicationErrors) )
    /\ [][\A t \in Threads :
             (~client.closed /\ th[t].pc \in IoSteps /\ th'[t] # th[t])
             => (socket # 0 /\ socks[socket].st # "closed")]_vars

\* C12: once close() of the client has returned and the listener thread has
\* stopped, the communicator holds no socket.
C12_ReleasedAfterClose ==
    (client.closed /\ Caller.pc = "idle" /\ Caller.op = "close" /\ ListenerStopped)
    => socket = 0

\* C13: the listener thread ends only after the stop flag has been cleared.
C13_ExitsOnlyOnStopFlag == ListenerStopped => ~client._listening

\* C14: when the listener's receive_message has returned and the loop is
\* back at its test, the callback has been called once with the object
\* returned, and not at all if None was returned.
C14_CallbackPerObject ==
    (Listener.pc = "loop" /\ Listener.op = "receive_message"
        /\ Listener.result.kind = "return")
    => client.invoked = IF Listener.result.value = "None"
                        THEN <<>>
                        ELSE <<Listener.result.value>>

\* An upper bound on the steps a thread at a position has yet to take before
\* its loop test, a payload read left aside.
StepsLeft(pc) ==
    CASE pc \in {"done", "dead"} -> 0
      [] pc = "loop" -> 1
      [] pc = "idle" -> 2
      [] pc \in {"return_none", "recv_raise"} -> 3
      [] pc = "connect_connect" -> 4
      [] pc = "connect_create" -> 5
      [] pc = "close_clear" -> 6
      [] pc = "close_close" -> 7
      [] pc = "close_shutdown" -> 8
      [] pc = "close_check" -> 9
      [] pc = "recv_validate" -> 20
      [] pc = "recv_payload" -> 21
      [] pc = "recv_len" -> 22
      [] pc = "recv_first" -> 23
      [] pc = "listen" -> 30

RECURSIVE StepsOfStack(_)
StepsOfStack(stack) ==
    IF stack = <<>> THEN 0 ELSE StepsLeft(Head(stack)) + StepsOfStack(Tail(stack))

\* The steps left of a thread's position and of the continuations it has
\* pending, and the payload bytes it still waits for.
Steps(me) == StepsLeft(me.pc) + StepsOfStack(me.stack)

Waited(me) == IF me.pc = "recv_payload" THEN me.length - Len(me.encrypted_data) ELSE 0

\* The listener thread has a step to take where it is: the step of its
\* position is enabled (whatever the socket call it makes there, the call
\* returns, with data, a timeout, the end of the stream or an error).  The
\* step after the payload reads makes no socket call and has no condition
\* but the position.
ListenerCanStep ==
    CASE Listener.pc = "loop" -> ENABLED ListenerTest
      [] Listener.pc = "listen" -> ENABLED ListenerReceive
      [] Listener.pc = "idle" -> ENABLED ListenerDeliver \/ ENABLED ListenerExcept
      [] Listener.pc = "recv_first" -> ENABLED RecvFirst("listener")
      [] Listener.pc = "recv_len" -> ENABLED RecvLength("listener")
      [] Listener.pc = "recv_payload" -> ENABLED RecvPayload("listener")
      [] Listener.pc = "recv_validate" -> TRUE
      [] Listener.pc = "recv_raise" -> ENABLED RecvRaise("listener")
      [] Listener.pc = "connect_create" -> ENABLED ConnectCreate("listener")
      [] Listener.pc = "connect_connect" -> ENABLED ConnectConnect("listener")
      [] Listener.pc = "close_check" -> ENABLED CloseCheck("listener")
      [] Listener.pc = "close_shutdown" -> ENABLED CloseShutdown("listener")
      [] Listener.pc = "close_close" -> ENABLED CloseClose("listener")
      [] Listener.pc = "close_clear" -> ENABLED CloseClear("listener")
      [] Listener.pc = "return_none" -> ENABLED ReturnNone("listener")
      [] OTHER -> FALSE

\* C15: once close() has cleared the stop flag, it stays cleared, the
\* listener thread has a step to take until it has stopped, every step it
\* takes brings it nearer to the loop test or to its end (fewer steps left,
\* or as many and fewer payload bytes waited for), and the loop test starts
\* no iteration: a listener thread that is scheduled stops.
C15_ListenerStops ==
    /\ []( (client.closed /\ ~ListenerStopped) => ListenerCanStep )
    /\ [][client.closed => (client'.closed /\ ~client'._listening)]_vars
    /\ [][(client.closed /\ Listener' # Listener)
            => \/ Steps(Listener') < Steps(Listener)
               \/ /\ Steps(Listener') = Steps(Listener)
                  /\ Waited(Listener') < Waited(Listener)]_vars
    /\ [][client.closed => ~(Listener.pc = "loop" /\ Listener'.pc = "listen")]_vars

\* The loop has exited on the stop flag after an iteration that was under
\* way when close() cleared it.
C15_Witness ==
    /\ client.closed
    /\ Listener.pc = "done"
    /\ Listener.op = "receive_message"

====
